---------------------------- MODULE Spec2Model ----------------------------
(***************************************************************************)
(* State-synchronisation core of the sumo-web3d backend                    *)
(* (src/backend/server/server.py, src/backend/server/sumo.py): the         *)
(* process-wide simulation state, the websocket control handler, the tick  *)
(* loop task, the recorded-log generators and the HTTP entry points that   *)
(* write the same globals.                                                 *)
(*                                                                         *)
(* Scheduling is asyncio's: one thread, tasks interleave only at awaits.   *)
(* Every action below is the code that runs between two awaits.            *)
(***************************************************************************)
EXTENDS Integers, Sequences, FiniteSets, TLC

(***************************************************************************)
(* Bounds of the model.                                                    *)
(***************************************************************************)
MaxSessions == 2   \* websocket connections opened over the run
MaxTasks == 2      \* tick-loop tasks alive at the same time
LogSteps == 2      \* timesteps in the recorded trajectory log

Sessions == 1..MaxSessions

None == "None"

(***************************************************************************)
(* Python values.  A dict is a function; the empty dict is EmptyDict.      *)
(***************************************************************************)
EmptyDict == [k \in {} |-> k]

\* float(s) for the numeric strings that occur in the logs
Float(s) ==
    CASE s = "0" -> 0
      [] s = "1" -> 1
      [] s = "2" -> 2
      [] s = "3" -> 3

\* str(x): a string, never equal to the number it prints
Str(x) == <<"str", x>>

(***************************************************************************)
(* Status values.  run_simulation compares with `is`, so a status carries  *)
(* its text and whether it is the module-level constant object or a string *)
(* decoded from a request body.                                            *)
(***************************************************************************)
STATUS_OFF == [val |-> "off", const |-> TRUE]
STATUS_RUNNING == [val |-> "running", const |-> TRUE]
STATUS_PAUSED == [val |-> "paused", const |-> TRUE]

JsonStr(s) == [val |-> s, const |-> FALSE]

DefaultDelayMs == 30

(***************************************************************************)
(* Scenario registry.  Scenario.name is already kebab-case; the display    *)
(* names are kept so that to_kebab_case is applied as the code applies it. *)
(***************************************************************************)
ToKebabCase(name) ==
    CASE name = "Rec Demo" -> "rec-demo"
      [] name = "rec_lanes" -> "rec-lanes"
      [] name = "Live" -> "live"
      [] OTHER -> name

ScenarioConfigs ==
    { [name |-> "Rec Demo", fcd_file |-> "fcd.xml", lane_distr_file |-> None],
      [name |-> "rec_lanes", fcd_file |-> "fcd.xml", lane_distr_file |-> "lanes.txt"],
      [name |-> "Live", fcd_file |-> None, lane_distr_file |-> None] }

\* Scenario.__init__
ScenarioInit(cfg) ==
    [display_name |-> cfg.name,
     name |-> ToKebabCase(cfg.name),
     fcd_file |-> cfg.fcd_file,
     lane_distr_file |-> cfg.lane_distr_file]

\* load_scenarios_file: map from kebab-case name to Scenario
scenarios ==
    [k \in {ToKebabCase(c.name) : c \in ScenarioConfigs} |->
        ScenarioInit(CHOOSE c \in ScenarioConfigs : ToKebabCase(c.name) = k)]

ScenarioKeys == DOMAIN scenarios

\* Scenario.is_live
is_live(sc) == sc.fcd_file = None

(***************************************************************************)
(* The recorded logs on disk: LogSteps timesteps.  Vehicle "a" is in every *)
(* timestep and moves every second one; vehicle "b" is in the even ones.   *)
(***************************************************************************)
NumStr(n) ==
    CASE n = 0 -> "0"
      [] n = 1 -> "1"
      [] n = 2 -> "2"
      [] n = 3 -> "3"

RawA(i) == [id |-> "a", x |-> NumStr(i \div 2), y |-> "0", speed |-> NumStr(i \div 2),
            angle |-> "90", type |-> "DEFAULT_VEHTYPE"]
RawB == [id |-> "b", x |-> "3", y |-> "1", speed |-> "1", angle |-> "0",
         type |-> "bus", vClass |-> "bus", color |-> "255, 0, 0"]

\* the `end` events ET.iterparse reports for timestep i of the trajectory file
StepXml(i) ==
    << [tag |-> "vehicle", attrib |-> RawA(i)] >>
    \o (IF i % 2 = 0 THEN << [tag |-> "vehicle", attrib |-> RawB] >> ELSE << >>)
    \o << [tag |-> "timestep", attrib |-> [time |-> NumStr(i - 1)]] >>

RECURSIVE FcdXmlUpTo(_)
FcdXmlUpTo(n) == IF n = 0 THEN << >> ELSE FcdXmlUpTo(n - 1) \o StepXml(n)

FcdXml == FcdXmlUpTo(LogSteps)

\* the lines of the lane-occupancy file: the prefix the parser matches on
\* and the rest of the line; one block of two lines per timestep of FcdXml
LaneLines ==
    [i \in 1..(2 * LogSteps + 1) |->
        IF i = 2 * LogSteps + 1 THEN [prefix |-> "]]", rest |-> ""]
        ELSE IF i = 1 THEN [prefix |-> "[[", rest |-> <<"row", i>>]
        ELSE IF i % 2 = 1 THEN [prefix |-> "], [", rest |-> <<"row", i>>]
        ELSE [prefix |-> ", ", rest |-> <<"row", i>>]]

\* parse_fcd: the sequence of values the generator yields
RECURSIVE ParseFcdFrom(_, _, _)
ParseFcdFrom(events, i, timestep) ==
    IF i > Len(events) THEN << >>
    ELSE IF events[i].tag = "vehicle"
         THEN ParseFcdFrom(events, i + 1, Append(timestep, events[i].attrib))
    ELSE IF events[i].tag = "timestep"
         THEN << <<events[i].attrib.time, timestep>> >>
                 \o ParseFcdFrom(events, i + 1, << >>)
    ELSE ParseFcdFrom(events, i + 1, timestep)

parse_fcd(events) == ParseFcdFrom(events, 1, << >>)

\* parse_lane_distr: the sequence of values the generator yields
RECURSIVE ParseLaneFrom(_, _, _)
ParseLaneFrom(lines, i, data) ==
    IF i > Len(lines) THEN << >>
    ELSE IF lines[i].prefix = "]]" THEN << >>
    ELSE IF lines[i].prefix # "], ["
         THEN ParseLaneFrom(lines, i + 1, Append(data, <<"eval", lines[i].rest>>))
    ELSE << data >> \o ParseLaneFrom(lines, i + 1, << <<"text", lines[i].rest>> >>)

parse_lane_distr(lines) ==
    ParseLaneFrom(lines, 2, << <<"text", lines[1].rest>> >>)

(***************************************************************************)
(* Entity model.                                                           *)
(***************************************************************************)
\* {**a, **b}
DictMerge(a, b) ==
    [k \in (DOMAIN a) \cup (DOMAIN b) |-> IF k \in DOMAIN b THEN b[k] ELSE a[k]]

\* vehicle['color'].split(',') with each part stripped
SplitColor(c) ==
    CASE c = "255, 0, 0" -> <<"255", "0", "0">>
      [] OTHER -> <<c>>

parse_color(vehicle) ==
    IF "color" \in DOMAIN vehicle
    THEN [color |-> SplitColor(vehicle.color)]
    ELSE EmptyDict

read_fcd_vehicle(vehicle) ==
    DictMerge(
        [x |-> Float(vehicle.x),
         y |-> Float(vehicle.y),
         z |-> 0,
         speed |-> Float(vehicle.speed),
         angle |-> vehicle.angle,
         type |-> IF vehicle.type = "DEFAULT_VEHTYPE" THEN "car" ELSE vehicle.type,
         vClass |-> IF "vClass" \in DOMAIN vehicle THEN vehicle.vClass ELSE "passenger",
         length |-> "4.5",
         width |-> "1.8",
         signals |-> 0],
        parse_color(vehicle))

\* {vehicle['id']: read_fcd_vehicle(vehicle) for vehicle in vehicles}:
\* a later record with the same id replaces an earlier one
VehiclesDict(vehicles) ==
    [k \in {vehicles[i].id : i \in DOMAIN vehicles} |->
        LET last == CHOOSE i \in DOMAIN vehicles :
                        /\ vehicles[i].id = k
                        /\ \A j \in DOMAIN vehicles : vehicles[j].id = k => j <= i
        IN  read_fcd_vehicle(vehicles[last])]

\* Counter(v['vClass'] for veh_id, v in vehicles.items())
VehicleCounts(vehicles) ==
    [c \in {vehicles[k].vClass : k \in DOMAIN vehicles} |->
        Cardinality({k \in DOMAIN vehicles : vehicles[k].vClass = c})]

(***************************************************************************)
(* Delta engine (deltas.py is not among the sources; modelled from the     *)
(* specification's section 4.2).                                           *)
(***************************************************************************)
Tombstone == [tombstone |-> TRUE]

diff_dicts(previous, current) ==
    LET changed == {k \in DOMAIN current :
                        k \notin DOMAIN previous \/ previous[k] # current[k]}
        removed == (DOMAIN previous) \ (DOMAIN current)
    IN  [k \in changed \cup removed |->
            IF k \in DOMAIN current THEN current[k] ELSE Tombstone]

\* the viewer's reconstruction: a full payload inserts or replaces the id,
\* a tombstone deletes it
ApplyDelta(v, delta) ==
    LET gone == {k \in DOMAIN delta : delta[k] = Tombstone}
        kept == ((DOMAIN v) \cup (DOMAIN delta)) \ gone
    IN  [k \in kept |-> IF k \in DOMAIN delta THEN delta[k] ELSE v[k]]

(***************************************************************************)
(* read_next_step: the snapshot and the new value of last_vehicles.        *)
(* The wall-clock fields simulate_secs and snapshot_secs are left out.     *)
(***************************************************************************)
\* a read_next_step that diffs in the wrong direction
read_next_step_reversed(timestep, vehicles, prev_vehicles) ==
    LET veh == VehiclesDict(vehicles)
    IN  [snapshot |-> [time |-> Str(Float(timestep) * 1000),
                       vehicles |-> diff_dicts(veh, prev_vehicles),
                       vehicle_counts |-> VehicleCounts(veh)],
         last_vehicles |-> veh]

\* a read_next_step that forgets the previous frame
read_next_step_full(timestep, vehicles, prev_vehicles) ==
    LET veh == VehiclesDict(vehicles)
    IN  [snapshot |-> [time |-> Str(Float(timestep) * 1000),
                       vehicles |-> diff_dicts(EmptyDict, veh),
                       vehicle_counts |-> VehicleCounts(veh)],
         last_vehicles |-> veh]

read_next_step(timestep, vehicles, prev_vehicles) ==
    LET veh == VehiclesDict(vehicles)
    IN  [snapshot |-> [time |-> Str(Float(timestep) * 1000),
                       vehicles |-> diff_dicts(prev_vehicles, veh),
                       vehicle_counts |-> VehicleCounts(veh)],
         last_vehicles |-> veh]

(***************************************************************************)
(* The external engine (sumo.py).  SUMO_HOME is hard-wired to None, so the *)
(* module-level flag `sumo` is False.                                      *)
(***************************************************************************)
sumo == FALSE

\* start_sumo: the engine connection after the call
start_sumo(open) == IF ~sumo THEN open ELSE TRUE

\* stop_sumo: the engine connection after the call
stop_sumo(open) == IF ~sumo THEN open ELSE FALSE

(***************************************************************************)
(* State.                                                                  *)
(***************************************************************************)
VARIABLES
    simulation_status,  \* server.py global
    delay_length_ms,    \* server.py global
    current_scenario,   \* server.py global: None or a key of `scenarios`
    last_vehicles,      \* server.py global: the previous frame's entities
    last_lights,        \* server.py global
    traci_open,         \* whether a TraCI connection to the engine is open
    sumo_last_call,     \* the calls made to the engine since its last start:
                        \* "start", then "stop", then "stop, stop" for more
    disk,               \* the recorded logs: [fcd |-> events, lanes |-> lines]
    conn,               \* per session: the websocket transport
    pc,                 \* per session: where websocket_simulation_control is
    task,               \* per session: the handler's local `task`: 0 is None, -1 a
                        \* task that is done, otherwise an index into `tasks`
    live,               \* per session: the handler's local `live`
    tasks,              \* the run_simulation tasks that are not done, oldest first
    sent,               \* what the last step did: the message it sent and on which
                        \* websocket, the action it answers, whether it took a frame
    nsnap,              \* snapshot messages sent so far since the start of a run
                        \* that `hist` follows
    view,               \* per session: the viewer's reconstructed entities
    synced,             \* per session: the viewer issued start in status off
    hist                \* how far the run is a lone connect-then-start, or a start
                        \* right after a cancel

vars == <<simulation_status, delay_length_ms, current_scenario, last_vehicles,
          last_lights, traci_open, sumo_last_call, disk, conn, pc, task, live,
          tasks, sent, nsnap, view, synced, hist>>

globals == <<simulation_status, delay_length_ms, current_scenario,
             last_vehicles, last_lights>>
engine == <<traci_open, sumo_last_call>>
client == <<view, synced>>

NoMsg == [type |-> "none"]
NoSend == [to |-> 0, msg |-> NoMsg, re |-> "none", stepped |-> FALSE]

\* an HTTP request that failed: nothing is sent on a websocket
Rejected == [NoSend EXCEPT !.re = "rejected"]

Tasks == 1..Len(tasks)

\* a task that has not returned, raised or been cancelled: not yet run,
\* suspended in a sleep, or suspended inside ws.send_str
TaskLive(tk) == tk.pc \in {"created", "run", "sending"}

\* a task that is done leaves the event loop: `tasks` without its t-th entry,
\* and the handlers' references to tasks afterwards
RemoveTask(tks, t) ==
    [i \in 1..(Len(tks) - 1) |-> IF i < t THEN tks[i] ELSE tks[i + 1]]

RefsAfterRemove(refs, t) ==
    [s \in DOMAIN refs |->
        IF refs[s] = t THEN -1
        ELSE IF refs[s] > t THEN refs[s] - 1
        ELSE refs[s]]

\* the values the viewer sends with changeDelay, and the bodies POSTed to /state
DelayValues == {0}
PostDelayValues == {0}
PostStatusValues == {"running"}

Init ==
    /\ simulation_status = STATUS_OFF
    /\ delay_length_ms = DefaultDelayMs
    /\ current_scenario = None
    /\ last_vehicles = EmptyDict
    /\ last_lights = EmptyDict
    /\ traci_open = FALSE
    /\ sumo_last_call = None
    /\ disk = [fcd |-> FcdXml, lanes |-> LaneLines]
    /\ conn = [s \in Sessions |-> "none"]
    /\ pc = [s \in Sessions |-> "idle"]
    /\ task = [s \in Sessions |-> 0]
    /\ live = [s \in Sessions |-> FALSE]
    /\ tasks = << >>
    /\ sent = NoSend
    /\ nsnap = 0
    /\ view = [s \in Sessions |-> EmptyDict]
    /\ synced = [s \in Sessions |-> FALSE]
    /\ hist = "init"

(***************************************************************************)
(* Status messages.                                                        *)
(***************************************************************************)
get_state(status, delay, scenario) ==
    [delayMs |-> delay,
     scenario |-> ToKebabCase(scenarios[scenario].name),
     simulationStatus |-> status.val]

get_state_websocket_message(status, delay, scenario) ==
    DictMerge(get_state(status, delay, scenario), [type |-> "state"])

(***************************************************************************)
(* HTTP entry points.                                                      *)
(***************************************************************************)
\* a lookup that falls back to a default scenario on an unknown key
get_new_scenario_default(k) ==
    /\ current_scenario' = IF k \in ScenarioKeys THEN k ELSE "rec-demo"
    /\ hist' = IF hist = "init" THEN "init" ELSE "other"
    /\ nsnap' = 0
    /\ sent' = IF k \in ScenarioKeys THEN NoSend ELSE Rejected
    /\ UNCHANGED <<simulation_status, delay_length_ms, last_vehicles, last_lights,
                   engine, disk, conn, pc, task, live, tasks, client>>

\* GET /scenarios/{scenario}/ : an unknown key raises KeyError
get_new_scenario(k) ==
    /\ current_scenario' = IF k \in ScenarioKeys THEN k ELSE current_scenario
    /\ hist' = IF hist = "init" THEN "init" ELSE "other"
    /\ nsnap' = 0
    /\ sent' = IF k \in ScenarioKeys THEN NoSend ELSE Rejected
    /\ UNCHANGED <<simulation_status, delay_length_ms, last_vehicles, last_lights,
                   engine, disk, conn, pc, task, live, tasks, client>>

\* POST /state: an unknown scenario returns None before anything is assigned
post_state(body) ==
    /\ IF body.scenario \notin ScenarioKeys
       THEN UNCHANGED <<current_scenario, delay_length_ms, simulation_status>>
       ELSE /\ current_scenario' = body.scenario
            /\ delay_length_ms' = body.delay_length_ms
            /\ simulation_status' = body.simulation_status
    /\ hist' = "other"
    /\ nsnap' = 0
    /\ sent' = IF body.scenario \in ScenarioKeys THEN NoSend ELSE Rejected
    /\ UNCHANGED <<last_vehicles, last_lights, engine, disk, conn, pc, task,
                   live, tasks, client>>

PostBodies ==
    [scenario : ScenarioKeys \cup {"unknown"},
     delay_length_ms : PostDelayValues,
     simulation_status : {JsonStr(v) : v \in PostStatusValues}]

(***************************************************************************)
(* cleanup_sumo_simulation(simulation_task, live).  Assigning None to the  *)
(* parameter does not change the caller's `task`.  The tick task is always *)
(* suspended at an await when a handler runs, so cancel() ends it unless   *)
(* it is already done.                                                     *)
(***************************************************************************)
cleanup_sumo_simulation(simulation_task, is_live_session) ==
    IF simulation_task # 0
    THEN /\ IF simulation_task > 0
            THEN /\ tasks' = RemoveTask(tasks, simulation_task)
                 /\ task' = RefsAfterRemove(task, simulation_task)
            ELSE UNCHANGED <<tasks, task>>
         /\ last_vehicles' = EmptyDict
         /\ last_lights' = EmptyDict
         /\ IF is_live_session
            THEN /\ traci_open' = stop_sumo(traci_open)
                 /\ sumo_last_call' = IF sumo_last_call \in {"stop", "stop, stop"}
                                      THEN "stop, stop" ELSE "stop"
            ELSE UNCHANGED engine
    ELSE UNCHANGED <<tasks, task, last_vehicles, last_lights, engine>>

(***************************************************************************)
(* websocket_simulation_control.                                           *)
(***************************************************************************)
\* the handler up to `async for`: an unset current_scenario raises before
\* anything is changed.  The sessions are one viewer's successive connections:
\* it reconnects once the handler of its earlier websocket has ended (tick
\* tasks of the earlier session may still be alive).
Open(s) ==
    /\ pc[s] = "idle"
    /\ current_scenario # None
    /\ task' = [task EXCEPT ![s] = 0]
    /\ live' = [live EXCEPT ![s] = is_live(scenarios[current_scenario])]
    /\ conn' = [conn EXCEPT ![s] = "open"]
    /\ pc' = [pc EXCEPT ![s] = "recv"]
    /\ hist' = IF hist = "init" THEN "connected" ELSE "other"
    /\ nsnap' = 0
    /\ sent' = NoSend
    /\ UNCHANGED <<globals, engine, disk, tasks, client>>

\* a reconnection: the handler of every earlier websocket has ended
Connect(s) ==
    /\ \A r \in Sessions : r < s => pc[r] \in {"returned", "raised"}
    /\ Open(s)

\* a second viewer: a websocket opened while an earlier one is being served
ConnectBeside(s) ==
    /\ \E r \in Sessions : r < s /\ pc[r] = "recv"
    /\ Open(s)

\* the handler's locals end with the handler
HandlerGone(s) ==
    /\ task' = [task EXCEPT ![s] = 0]
    /\ live' = [live EXCEPT ![s] = FALSE]

\* when the websocket ends the viewer is gone, and its reconstruction with it
ViewerGone(s) ==
    /\ view' = [view EXCEPT ![s] = EmptyDict]
    /\ synced' = [synced EXCEPT ![s] = FALSE]

\* a TEXT message is being handled on an open websocket
Receiving(s) == pc[s] = "recv" /\ conn[s] = "open"

\* a changeDelay that also switches the simulation off
StatusAfterMutant(action, status) ==
    CASE action = "start" -> STATUS_RUNNING
      [] action = "pause" -> STATUS_PAUSED
      [] action = "resume" -> STATUS_RUNNING
      [] action = "cancel" -> STATUS_OFF
      [] action = "changeDelay" -> STATUS_OFF

\* the status each action assigns
StatusAfter(action, status) ==
    CASE action = "start" -> STATUS_RUNNING
      [] action = "pause" -> STATUS_PAUSED
      [] action = "resume" -> STATUS_RUNNING
      [] action = "cancel" -> STATUS_OFF
      [] action = "changeDelay" -> status

\* a state message composed before the action's assignments
SendStateMutant(s, action, status, delay) ==
    sent' = [to |-> s,
             msg |-> get_state_websocket_message(simulation_status,
                                                 delay_length_ms, current_scenario),
             re |-> action,
             stepped |-> FALSE]

\* ws.send_str(json.dumps(get_state_websocket_message())), given the values
\* the action has just assigned to the globals
SendState(s, action, status, delay) ==
    sent' = [to |-> s,
             msg |-> get_state_websocket_message(status, delay, current_scenario),
             re |-> action,
             stepped |-> FALSE]

Start(s) ==
    /\ Receiving(s)
    /\ Len(tasks) < MaxTasks
    /\ IF live[s]
       THEN /\ traci_open' = start_sumo(traci_open)
            /\ sumo_last_call' = "start"
       ELSE UNCHANGED engine
    /\ simulation_status' = StatusAfter("start", simulation_status)
    /\ tasks' = Append(tasks, [ws |-> s, pc |-> "created", fcd |-> None,
                               fcd_pos |-> 0, lane |-> None, lane_pos |-> 0])
    /\ task' = [task EXCEPT ![s] = Len(tasks) + 1]
    /\ SendState(s, "start", StatusAfter("start", simulation_status), delay_length_ms)
    /\ IF simulation_status.val = "off"
       THEN /\ view' = [view EXCEPT ![s] = EmptyDict]
            /\ synced' = [synced EXCEPT ![s] = TRUE]
       ELSE UNCHANGED <<view, synced>>
    /\ hist' = CASE hist = "connected" -> "started"
                  [] hist = "cancelled" -> "restarted"
                  [] OTHER -> "other"
    /\ nsnap' = 0
    /\ UNCHANGED <<delay_length_ms, current_scenario, last_vehicles, last_lights,
                   disk, conn, pc, live>>

Pause(s) ==
    /\ Receiving(s)
    /\ simulation_status' = StatusAfter("pause", simulation_status)
    /\ SendState(s, "pause", StatusAfter("pause", simulation_status), delay_length_ms)
    /\ hist' = "other"
    /\ nsnap' = 0
    /\ UNCHANGED <<delay_length_ms, current_scenario, last_vehicles, last_lights,
                   engine, disk, conn, pc, task, live, tasks, view, synced>>

Resume(s) ==
    /\ Receiving(s)
    /\ simulation_status' = StatusAfter("resume", simulation_status)
    /\ SendState(s, "resume", StatusAfter("resume", simulation_status), delay_length_ms)
    /\ hist' = "other"
    /\ nsnap' = 0
    /\ UNCHANGED <<delay_length_ms, current_scenario, last_vehicles, last_lights,
                   engine, disk, conn, pc, task, live, tasks, view, synced>>

Cancel(s) ==
    /\ Receiving(s)
    /\ simulation_status' = StatusAfter("cancel", simulation_status)
    /\ cleanup_sumo_simulation(task[s], live[s])
    /\ SendState(s, "cancel", StatusAfter("cancel", simulation_status), delay_length_ms)
    /\ hist' = "cancelled"
    /\ nsnap' = 0
    /\ UNCHANGED <<delay_length_ms, current_scenario, disk, conn, pc, live,
                   view, synced>>

ChangeDelay(s, d) ==
    /\ Receiving(s)
    /\ simulation_status' = StatusAfter("changeDelay", simulation_status)
    /\ delay_length_ms' = d
    /\ SendState(s, "changeDelay", StatusAfter("changeDelay", simulation_status), d)
    /\ hist' = "other"
    /\ nsnap' = 0
    /\ UNCHANGED <<current_scenario, last_vehicles, last_lights, engine, disk,
                   conn, pc, task, live, tasks, view, synced>>

\* an unknown message handled like a transport error before the raise
BadMessageMutant(s) ==
    /\ Receiving(s)
    /\ pc' = [pc EXCEPT ![s] = "raised"]
    /\ conn' = [conn EXCEPT ![s] = "closed"]
    /\ HandlerGone(s)
    /\ ViewerGone(s)
    /\ simulation_status' = STATUS_OFF
    /\ hist' = "other"
    /\ nsnap' = 0
    /\ sent' = NoSend
    /\ UNCHANGED <<delay_length_ms, current_scenario, last_vehicles, last_lights,
                   engine, disk, tasks>>

\* a message whose type is not 'action', or whose action is unknown: the
\* handler raises and the server closes the websocket
BadMessage(s) ==
    /\ Receiving(s)
    /\ pc' = [pc EXCEPT ![s] = "raised"]
    /\ conn' = [conn EXCEPT ![s] = "closed"]
    /\ HandlerGone(s)
    /\ ViewerGone(s)
    /\ hist' = "other"
    /\ nsnap' = 0
    /\ sent' = NoSend
    /\ UNCHANGED <<globals, engine, disk, tasks>>

\* the viewer goes away: the transport closes, or fails with an error
ClientClose(s) ==
    /\ conn[s] = "open"
    /\ conn' = [conn EXCEPT ![s] = "closed"]
    /\ ViewerGone(s)
    /\ hist' = "other"
    /\ nsnap' = 0
    /\ sent' = NoSend
    /\ UNCHANGED <<globals, engine, disk, pc, task, live, tasks>>

TransportError(s) ==
    /\ conn[s] = "open"
    /\ conn' = [conn EXCEPT ![s] = "error"]
    /\ ViewerGone(s)
    /\ hist' = "other"
    /\ nsnap' = 0
    /\ sent' = NoSend
    /\ UNCHANGED <<globals, engine, disk, pc, task, live, tasks>>

\* msg.type == ERROR
HandleError(s) ==
    /\ pc[s] = "recv"
    /\ conn[s] = "error"
    /\ simulation_status' = STATUS_OFF
    /\ cleanup_sumo_simulation(task[s], live[s])
    /\ conn' = [conn EXCEPT ![s] = "closed"]
    /\ hist' = "other"
    /\ nsnap' = 0
    /\ sent' = NoSend
    /\ UNCHANGED <<delay_length_ms, current_scenario, disk, pc, live, client>>

\* `async for msg in ws` ends on a close message: return ws
HandleClose(s) ==
    /\ pc[s] = "recv"
    /\ conn[s] = "closed"
    /\ pc' = [pc EXCEPT ![s] = "returned"]
    /\ HandlerGone(s)
    /\ hist' = "other"
    /\ nsnap' = 0
    /\ sent' = NoSend
    /\ UNCHANGED <<globals, engine, disk, conn, tasks, client>>

(***************************************************************************)
(* run_simulation.  A task runs from one await to the next: on its first   *)
(* run it creates the generators from the scenario that is current then.   *)
(***************************************************************************)
BindParsers(tk, sc) ==
    IF tk.pc = "created"
    THEN [tk EXCEPT !.fcd = sc.fcd_file, !.lane = sc.lane_distr_file]
    ELSE tk

\* a loop that only stands still when the status is off
IsRunningMutant(status) == status # STATUS_OFF

\* a loop that does not look at the shared status
IsRunningIgnored(status) == TRUE

\* `simulation_status is STATUS_RUNNING`
IsRunning(status) == status = STATUS_RUNNING

\* a loop that swallows the source's exception and goes on to its next pass
LoopPassRetry(tk, status, prev_vehicles, d, open) ==
    LET idle == [task |-> [tk EXCEPT !.pc = "run"],
                 last_vehicles |-> prev_vehicles, msg |-> NoMsg, stepped |-> FALSE]
        raise(t, lv) == [task |-> [t EXCEPT !.pc = "run"],
                         last_vehicles |-> lv, msg |-> NoMsg,
                         stepped |-> t.fcd_pos > tk.fcd_pos]
    IN
    IF ~IsRunning(status) THEN idle
    ELSE IF tk.fcd = None THEN raise(tk, prev_vehicles)
    ELSE IF tk.fcd_pos >= Len(parse_fcd(d.fcd)) THEN raise(tk, prev_vehicles)
    ELSE
      LET tk1 == [tk EXCEPT !.fcd_pos = tk.fcd_pos + 1]
          \* the pass from the call of read_next_step on, r being its result
          rest(r) ==
            IF tk.lane # None /\ tk.lane_pos >= Len(parse_lane_distr(d.lanes))
            THEN raise(tk1, r.last_vehicles)
            ELSE
              LET tk2 == IF tk.lane # None
                         THEN [tk1 EXCEPT !.lane_pos = tk.lane_pos + 1]
                         ELSE tk1
                  snap1 == IF tk.lane # None
                           THEN DictMerge(r.snapshot,
                                  [lane_distributions |->
                                      parse_lane_distr(d.lanes)[tk.lane_pos + 1]])
                           ELSE r.snapshot
                  snap2 == DictMerge(snap1, [type |-> "snapshot"])
              IN
              [task |-> [tk2 EXCEPT !.pc = IF open THEN "run" ELSE "returned"],
               last_vehicles |-> r.last_vehicles,
               msg |-> snap2,
               stepped |-> TRUE]
      \* item is what next(fcd_parser) returns, taken from the generator once
      IN  CHOOSE out \in
              {rest(read_next_step(item[1], item[2], prev_vehicles))
                 : item \in {parse_fcd(d.fcd)[tk.fcd_pos + 1]}} : TRUE

\* One pass of the `while True` body, from the test of the status to the
\* next sleep.  The result is the task afterwards, the new last_vehicles,
\* the snapshot handed to ws.send_str (NoMsg if the pass got to no send) and
\* whether a timestep was taken from the source.
\*   next(fcd_parser) on an exhausted generator raises StopIteration;
\*   simulate_next_step() is called without its two parameters and raises
\*   TypeError before it steps anything;
\*   next(lane_distr_parser) on an exhausted generator raises StopIteration
\*   after read_next_step has replaced last_vehicles;
\*   send_str on a websocket that is not open raises ConnectionResetError.
LoopPass(tk, status, prev_vehicles, d, open) ==
    LET idle == [task |-> [tk EXCEPT !.pc = "run"],
                 last_vehicles |-> prev_vehicles, msg |-> NoMsg, stepped |-> FALSE]
        raise(t, lv) == [task |-> [t EXCEPT !.pc = "raised"],
                         last_vehicles |-> lv, msg |-> NoMsg,
                         stepped |-> t.fcd_pos > tk.fcd_pos]
    IN
    IF ~IsRunning(status) THEN idle
    ELSE IF tk.fcd = None THEN raise(tk, prev_vehicles)
    ELSE IF tk.fcd_pos >= Len(parse_fcd(d.fcd)) THEN raise(tk, prev_vehicles)
    ELSE
      LET tk1 == [tk EXCEPT !.fcd_pos = tk.fcd_pos + 1]
          \* the pass from the call of read_next_step on, r being its result
          rest(r) ==
            IF tk.lane # None /\ tk.lane_pos >= Len(parse_lane_distr(d.lanes))
            THEN raise(tk1, r.last_vehicles)
            ELSE
              LET tk2 == IF tk.lane # None
                         THEN [tk1 EXCEPT !.lane_pos = tk.lane_pos + 1]
                         ELSE tk1
                  snap1 == IF tk.lane # None
                           THEN DictMerge(r.snapshot,
                                  [lane_distributions |->
                                      parse_lane_distr(d.lanes)[tk.lane_pos + 1]])
                           ELSE r.snapshot
                  snap2 == DictMerge(snap1, [type |-> "snapshot"])
              IN
              [task |-> [tk2 EXCEPT !.pc = IF open THEN "run" ELSE "returned"],
               last_vehicles |-> r.last_vehicles,
               msg |-> snap2,
               stepped |-> TRUE]
      \* item is what next(fcd_parser) returns, taken from the generator once
      IN  CHOOSE out \in
              {rest(read_next_step(item[1], item[2], prev_vehicles))
                 : item \in {parse_fcd(d.fcd)[tk.fcd_pos + 1]}} : TRUE

\* A run of task t from one suspension to the next.  `suspends` says whether
\* ws.send_str, having written the snapshot, waits for the transport to
\* drain (a viewer that reads slowly) instead of returning at once.
TaskStepTo(t, suspends) ==
    /\ tasks[t].pc \in {"created", "run"}
    \* r is the one pass the task makes
    /\ \E r \in {LoopPass(BindParsers(tasks[t], scenarios[current_scenario]),
                           simulation_status, last_vehicles, disk,
                           conn[tasks[t].ws] = "open")} :
       LET s == tasks[t].ws
           open == conn[s] = "open"
           delivered == r.msg # NoMsg /\ open
       IN
       /\ suspends => delivered
       /\ IF TaskLive(r.task)
          THEN /\ tasks' = [tasks EXCEPT ![t] =
                                IF suspends THEN [r.task EXCEPT !.pc = "sending"]
                                ELSE r.task]
               /\ UNCHANGED task
          ELSE /\ tasks' = RemoveTask(tasks, t)
               /\ task' = RefsAfterRemove(task, t)
       /\ last_vehicles' = r.last_vehicles
       /\ IF delivered
          THEN /\ sent' = [to |-> s, msg |-> r.msg, re |-> "tick", stepped |-> TRUE]
               /\ nsnap' = IF hist \in {"started", "restarted"} THEN nsnap + 1 ELSE 0
               /\ view' = [view EXCEPT ![s] =
                               IF synced[s] THEN ApplyDelta(view[s], r.msg.vehicles)
                               ELSE view[s]]
          ELSE /\ sent' = [NoSend EXCEPT !.re = "tick", !.stepped = r.stepped]
               /\ UNCHANGED <<nsnap, view>>
    /\ UNCHANGED <<simulation_status, delay_length_ms, current_scenario,
                   last_lights, engine, disk, conn, pc, live, synced, hist>>

\* ws.send_str returns at once
TaskStep(t) == TaskStepTo(t, FALSE)

\* ws.send_str is left waiting for the transport
SendSuspends(t) == TaskStepTo(t, TRUE)

\* the transport has drained, or the connection was lost meanwhile and
\* send_str raises ConnectionResetError: the loop returns
SendDone(t) ==
    /\ tasks[t].pc = "sending"
    /\ IF conn[tasks[t].ws] = "open"
       THEN /\ tasks' = [tasks EXCEPT ![t].pc = "run"]
            /\ UNCHANGED task
       ELSE /\ tasks' = RemoveTask(tasks, t)
            /\ task' = RefsAfterRemove(task, t)
    /\ sent' = NoSend
    /\ UNCHANGED <<globals, engine, disk, conn, pc, live, nsnap, client, hist>>

(***************************************************************************)
(* The system.                                                             *)
(***************************************************************************)
\* whether an HTTP request naming scenario k is made: always when the run
\* switches scenarios under open websockets; otherwise only before the first
\* websocket connects, or naming the active scenario or an unknown one
Requested(switching, k) ==
    \/ switching
    \/ \A s \in Sessions : pc[s] = "idle"
    \/ k \in {current_scenario, "unknown"}

\* the steps of the HTTP handlers, of the websocket handlers of the sessions
\* in SS, and of the tick tasks
NextOf(SS, switching) ==
    \/ \E k \in ScenarioKeys \cup {"unknown"} :
          Requested(switching, k) /\ get_new_scenario(k)
    \/ \E body \in PostBodies :
          Requested(switching, body.scenario) /\ post_state(body)
    \/ \E s \in SS : Connect(s)
    \/ \E s \in SS : Start(s)
    \/ \E s \in SS : Pause(s)
    \/ \E s \in SS : Resume(s)
    \/ \E s \in SS : Cancel(s)
    \/ \E s \in SS, d \in DelayValues : ChangeDelay(s, d)
    \/ \E s \in SS : BadMessage(s)
    \/ \E s \in SS : ClientClose(s)
    \/ \E s \in SS : TransportError(s)
    \/ \E s \in SS : HandleError(s)
    \/ \E s \in SS : HandleClose(s)
    \/ \E t \in Tasks : TaskStep(t)

Next == NextOf(Sessions, TRUE)

\* every viewer connection of the run
Spec == Init /\ [][Next]_vars

\* one websocket connection over the run, on the scenario chosen before it
NextSolo == NextOf({1}, FALSE)

SpecSolo == Init /\ [][NextSolo]_vars

\* one websocket connection whose viewer may read slowly
NextSlow ==
    \/ NextSolo
    \/ \E t \in Tasks : SendSuspends(t)
    \/ \E t \in Tasks : SendDone(t)

SpecSlow == Init /\ [][NextSlow]_vars

\* two viewers that connect on the scenario chosen before, stay connected,
\* start one tick loop each and pause, resume and cancel
Pair == {1, 2}

NextDuo ==
    \/ \E k \in ScenarioKeys : Requested(FALSE, k) /\ get_new_scenario(k)
    \/ \E s \in Pair : Connect(s)
    \/ \E s \in Pair : ConnectBeside(s)
    \/ \E s \in Pair : task[s] = 0 /\ Start(s)
    \/ \E s \in Pair : Pause(s)
    \/ \E s \in Pair : Resume(s)
    \/ \E s \in Pair : Cancel(s)
    \/ \E t \in Tasks : TaskStep(t)

SpecDuo == Init /\ [][NextDuo]_vars

\* one websocket connection under the event loop's scheduling: a task that is
\* ready to run (every tick task comes back from `await asyncio.sleep`, the
\* handler from `async for msg in ws` once the transport closed or failed)
\* is run again
SpecFair ==
    /\ SpecSolo
    /\ \A t \in 1..MaxTasks : WF_vars(t \in Tasks /\ TaskStep(t))
    /\ WF_vars(HandleClose(1))
    /\ WF_vars(HandleError(1))

(***************************************************************************)
(* Properties.                                                             *)
(***************************************************************************)

\* C1: client view consistency.  After every snapshot sent to a viewer that
\* started from an empty mapping with a start in status off, the deltas it
\* has applied since that start give exactly the server's last_vehicles.
C1_ViewConsistent ==
    (sent.re = "tick" /\ sent.msg.type = "snapshot" /\ synced[sent.to])
        => view[sent.to] = last_vehicles

\* C2: start while a tick loop exists creates no second one: at most one
\* tick-loop task is live per session.
C2_OneTickLoopPerSession ==
    \A s \in Sessions :
        Cardinality({t \in Tasks : tasks[t].ws = s /\ TaskLive(tasks[t])}) <= 1

\* C3: pausing does not advance the source.  A pass of the tick loop takes a
\* timestep from the source, or ends the loop in the attempt, only in a state
\* whose status is RUNNING; and the status becomes RUNNING only when a start
\* or a resume is processed, so after a pause no timestep is taken before one.
C3_NoStepUnlessRunning ==
    [][ /\ (sent'.re = "tick" /\ (sent'.stepped \/ Len(tasks') < Len(tasks)))
            => simulation_status = STATUS_RUNNING
        /\ (simulation_status # STATUS_RUNNING /\ simulation_status' = STATUS_RUNNING)
            => \E s \in Sessions : Start(s) \/ Resume(s)
      ]_vars

\* C3 witness: the status is PAUSED after the loop has taken a timestep, and
\* the loop has just made a pass that took none.
C3_Witness ==
    /\ simulation_status = STATUS_PAUSED
    /\ sent.re = "tick"
    /\ ~sent.stepped
    /\ \E t \in Tasks : tasks[t].pc = "run" /\ tasks[t].fcd_pos >= 1
                        /\ tasks[t].fcd_pos < Len(parse_fcd(disk.fcd))

\* C4: after a cancel has been processed the status is OFF and the
\* previous-frame cache is empty, whatever the status was and whether or not
\* the session has a tick-loop task.
C4_CancelClears ==
    sent.re = "cancel" =>
        /\ simulation_status = STATUS_OFF
        /\ last_vehicles = EmptyDict
        /\ last_lights = EmptyDict

\* C5: end of recording is an implicit cancel.  When a running loop asks for
\* a timestep after the trajectory log is exhausted, the status becomes OFF,
\* the cache is cleared and a state message with simulationStatus 'off' is sent.
C5_EndOfRecordingCancels ==
    [][ \A t \in Tasks :
          ( /\ TaskStep(t)
            /\ IsRunning(simulation_status)
            /\ BindParsers(tasks[t], scenarios[current_scenario]).fcd # None
            /\ tasks[t].fcd_pos >= Len(parse_fcd(disk.fcd)) )
          => ( /\ simulation_status' = STATUS_OFF
               /\ last_vehicles' = EmptyDict
               /\ sent'.msg.type = "state"
               /\ sent'.msg.simulationStatus = "off" )
      ]_vars

\* C6: on a recorded scenario of N timesteps, one start in status off with
\* nothing after it gives exactly N snapshots, the k-th carrying the k-th
\* timestep of the log: never more than N, and N when the loop has ended.
C6_OneSnapshotPerTimestep ==
    (hist = "started" /\ ~live[1]) =>
        /\ nsnap <= Len(parse_fcd(disk.fcd))
        /\ (sent.re = "tick" /\ sent.msg.type = "snapshot")
              => sent.msg.time =
                    Str(Float(parse_fcd(disk.fcd)[nsnap][1]) * 1000)
        /\ Len(tasks) = 0 => nsnap = Len(parse_fcd(disk.fcd))

\* C7: disconnection cleans up like cancel.  When the handler of a session
\* leaves its receive loop on a close, or handles a transport error, the
\* status is OFF and the cache empty afterwards, and an engine that a live
\* session started has been stopped.
C7_DisconnectCleansUp ==
    [][ \A s \in Sessions :
          (HandleClose(s) \/ HandleError(s))
          => ( /\ simulation_status' = STATUS_OFF
               /\ last_vehicles' = EmptyDict
               /\ last_lights' = EmptyDict
               /\ (live[s] /\ sumo_last_call = "start")
                     => sumo_last_call' = "stop" )
      ]_vars

\* C8: a pause received in status OFF is rejected: the status stays OFF and
\* the state message sent afterwards reports 'off'.
C8_PauseInOffRejected ==
    [][ \A s \in Sessions :
          (Pause(s) /\ simulation_status = STATUS_OFF)
          => ( /\ simulation_status' = STATUS_OFF
               /\ sent'.msg.simulationStatus = "off" )
      ]_vars

\* C9: a resume changes the status only from PAUSED to RUNNING; received in
\* any other status it leaves the status as it is.
C9_ResumeOnlyFromPaused ==
    [][ \A s \in Sessions :
          Resume(s)
          => simulation_status' =
                IF simulation_status = STATUS_PAUSED THEN STATUS_RUNNING
                ELSE simulation_status
      ]_vars

\* C10: a changeDelay, in any status, sets the tick delay to the given value
\* and reports it, and leaves the status, the active scenario, the
\* previous-frame cache, the tick-loop tasks and their cursors unchanged.
C10_ChangeDelayOnlyDelay ==
    [][ \A s \in Sessions, d \in DelayValues :
          ChangeDelay(s, d)
          => ( /\ delay_length_ms' = d
               /\ sent'.msg.delayMs = d
               /\ sent'.msg.simulationStatus = simulation_status.val
               /\ UNCHANGED <<simulation_status, current_scenario, last_vehicles,
                              last_lights, tasks, task>> )
      ]_vars

\* C10 witness: a changeDelay has been answered while the loop is running
\* in the middle of the log, with the cache holding the last frame.
C10_Witness ==
    /\ sent.re = "changeDelay"
    /\ sent.msg.delayMs = 0
    /\ delay_length_ms = 0
    /\ simulation_status = STATUS_RUNNING
    /\ last_vehicles # EmptyDict
    /\ \E t \in Tasks : tasks[t].pc = "run" /\ tasks[t].fcd_pos >= 1

\* C11: every recognised action is answered by one state message on the
\* connection it came from, before the handler reads again, and the message's
\* delayMs and simulationStatus are the values the action has left.
C11_ActionAnswered ==
    [][ \A s \in Sessions :
          ( \/ Start(s) \/ Pause(s) \/ Resume(s) \/ Cancel(s)
            \/ \E d \in DelayValues : ChangeDelay(s, d) )
          => ( /\ sent'.to = s
               /\ sent'.msg.type = "state"
               /\ sent'.msg.delayMs = delay_length_ms'
               /\ sent'.msg.simulationStatus = simulation_status'.val
               /\ pc'[s] = "recv" )
      ]_vars

\* C11 witness: a resume has been answered with 'running' and the delay that
\* was set earlier.
C11_Witness ==
    /\ sent.re = "resume"
    /\ sent.to = 1
    /\ sent.msg.simulationStatus = "running"
    /\ sent.msg.delayMs = 0
    /\ simulation_status = STATUS_RUNNING
    /\ delay_length_ms = 0

\* C12: an inbound message that is not a known action ends the session's
\* message loop: no state message is sent for it, and the status, the tick
\* delay, the scenario and the previous-frame cache are as before it.
C12_ProtocolErrorTerminates ==
    [][ \A s \in Sessions :
          (pc[s] = "recv" /\ pc'[s] = "raised")
          => ( /\ sent'.msg = NoMsg
               /\ conn'[s] = "closed"
               /\ UNCHANGED <<simulation_status, delay_length_ms,
                              current_scenario, last_vehicles, last_lights>> )
      ]_vars

\* C12 witness: the handler has raised while the simulation was paused in
\* the middle of the log, and status, delay and cache are still in place.
C12_Witness ==
    /\ pc[1] = "raised"
    /\ conn[1] = "closed"
    /\ sent = NoSend
    /\ simulation_status = STATUS_PAUSED
    /\ delay_length_ms = 0
    /\ last_vehicles # EmptyDict

\* C13: delta key exactness.  The 'vehicles' delta of every snapshot has an
\* entry for an id iff the id is new in the current frame, or in both frames
\* with different values, or only in the previous frame; new and changed
\* ids carry the complete current entity, removed ids a tombstone.
C13_DeltaKeysExact ==
    [][ (sent'.re = "tick" /\ sent'.msg.type = "snapshot")
        => LET prev == last_vehicles
               cur == last_vehicles'
               delta == sent'.msg.vehicles
               added == (DOMAIN cur) \ (DOMAIN prev)
               changed == {k \in (DOMAIN cur) \cap (DOMAIN prev) : cur[k] # prev[k]}
               removed == (DOMAIN prev) \ (DOMAIN cur)
           IN  /\ DOMAIN delta = added \cup changed \cup removed
               /\ changed \cap removed = {}
               /\ \A k \in added \cup changed : delta[k] = cur[k]
               /\ \A k \in removed : delta[k] = Tombstone
      ]_vars

\* C13 witness: a snapshot whose delta carries a tombstone for one id and a
\* complete entity for another, while the cache holds the new frame.
C13_Witness ==
    /\ sent.re = "tick"
    /\ sent.msg.type = "snapshot"
    /\ \E k \in DOMAIN sent.msg.vehicles : sent.msg.vehicles[k] = Tombstone
    /\ \E k \in DOMAIN sent.msg.vehicles :
          /\ sent.msg.vehicles[k] # Tombstone
          /\ sent.msg.vehicles[k] = last_vehicles[k]

\* C14: diffing a mapping against itself gives the empty delta, for every
\* frame of the log and the empty mapping; so a tick whose frame equals the
\* cached previous frame sends a snapshot with an empty 'vehicles' delta.
C14_DiffSelfEmpty ==
    [][ /\ \A i \in 1..Len(parse_fcd(disk.fcd)) :
              LET A == VehiclesDict(parse_fcd(disk.fcd)[i][2])
              IN  diff_dicts(A, A) = EmptyDict
        /\ diff_dicts(EmptyDict, EmptyDict) = EmptyDict
        /\ (sent'.re = "tick" /\ sent'.msg.type = "snapshot"
                /\ last_vehicles' = last_vehicles)
              => sent'.msg.vehicles = EmptyDict
      ]_vars

\* C14 witness: a snapshot with an empty delta has been sent for a frame
\* that is not empty.
C14_Witness ==
    /\ sent.re = "tick"
    /\ sent.msg.type = "snapshot"
    /\ sent.msg.vehicles = EmptyDict
    /\ last_vehicles # EmptyDict
    /\ sent.msg.vehicle_counts = VehicleCounts(last_vehicles)

\* C15: a start on a live session whose engine is not available does not
\* make the status RUNNING and creates no tick-loop task.
C15_SourceUnavailable ==
    [][ \A s \in Sessions :
          (Start(s) /\ live[s] /\ ~sumo)
          => ( /\ simulation_status # STATUS_RUNNING
                    => simulation_status' # STATUS_RUNNING
               /\ tasks' = tasks )
      ]_vars

\* C16: a request naming a scenario key that is not registered leaves the
\* active scenario, the status and the tick delay unchanged.
C16_UnknownScenarioRejected ==
    [][ sent'.re = "rejected"
        => UNCHANGED <<current_scenario, simulation_status, delay_length_ms>>
      ]_vars

\* C16 witness: a request for an unknown scenario has been rejected while a
\* scenario other than the first was active and the simulation was paused.
C16_Witness ==
    /\ sent.re = "rejected"
    /\ current_scenario = "rec-lanes"
    /\ simulation_status = STATUS_PAUSED
    /\ delay_length_ms = 0

\* C17: the status is always one of OFF, RUNNING, PAUSED, the tick delay a
\* natural number, and the status changes only in a step of a websocket
\* control action or of the cleanup on a disconnect.
C17_StatusWellFormed ==
    [][ /\ simulation_status' \in {STATUS_OFF, STATUS_RUNNING, STATUS_PAUSED}
        /\ delay_length_ms' \in Nat
        /\ simulation_status' # simulation_status
              => \E s \in Sessions :
                    \/ Start(s) \/ Pause(s) \/ Resume(s) \/ Cancel(s)
                    \/ HandleError(s) \/ HandleClose(s)
      ]_vars

\* C18: the source variant is fixed for a session: every tick-loop task of
\* an open session that has bound its parsers steps the live engine iff the
\* session was opened on a live scenario.
C18_VariantFixed ==
    \A t \in Tasks :
        (tasks[t].pc # "created" /\ pc[tasks[t].ws] = "recv")
            => ((tasks[t].fcd = None) <=> live[tasks[t].ws])

\* C19: on a live session every pass of the tick loop made while RUNNING,
\* with the websocket open, sends one snapshot to that session.
C19_LiveTickSendsSnapshot ==
    [][ \A t \in Tasks :
          ( /\ TaskStep(t)
            /\ IsRunning(simulation_status)
            /\ live[tasks[t].ws]
            /\ BindParsers(tasks[t], scenarios[current_scenario]).fcd = None
            /\ conn[tasks[t].ws] = "open" )
          => ( /\ sent'.to = tasks[t].ws
               /\ sent'.msg.type = "snapshot" )
      ]_vars

\* C20: a cancel or a disconnect cleanup never ends a tick-loop task between
\* its taking a timestep and the completion of the send of that snapshot.
C20_CancelOnlyBetweenTicks ==
    [][ \A s \in Sessions :
          ((Cancel(s) \/ HandleError(s)) /\ task[s] > 0)
          => tasks[task[s]].pc # "sending"
      ]_vars

\* C21: fail-stop ticks.  When a pass of the tick loop asks the source for a
\* frame and the source raises (the engine call fails, the trajectory log
\* or the lane log is exhausted), the pass sends nothing and the loop is
\* over: the task is gone and can make no later pass.
C21_FailStop ==
    [][ \A t \in Tasks :
          LET tk == BindParsers(tasks[t], scenarios[current_scenario])
          IN  ( /\ TaskStep(t)
                /\ IsRunning(simulation_status)
                /\ \/ tk.fcd = None
                   \/ tk.fcd_pos >= Len(parse_fcd(disk.fcd))
                   \/ /\ tk.lane # None
                      /\ tk.lane_pos >= Len(parse_lane_distr(disk.lanes)) )
              => ( /\ sent'.msg = NoMsg
                   /\ tasks' = RemoveTask(tasks, t)
                   /\ simulation_status' = simulation_status )
      ]_vars

\* C21 witness: on an open websocket the only loop has ended in a pass that
\* sent nothing, after it had sent the whole log.
C21_Witness ==
    /\ sent.re = "tick"
    /\ sent.msg = NoMsg
    /\ conn[1] = "open"
    /\ simulation_status = STATUS_RUNNING
    /\ task[1] = -1
    /\ Len(tasks) = 0
    /\ last_vehicles = VehiclesDict(parse_fcd(disk.fcd)[Len(parse_fcd(disk.fcd))][2])

\* C22: snapshot timestamps are monotone: of two snapshots sent one right
\* after the other on the same connection, the second does not carry a
\* smaller 'time' than the first.
C22_TimeMonotone ==
    [][ ( /\ sent.re = "tick" /\ sent.msg.type = "snapshot"
          /\ sent'.re = "tick" /\ sent'.msg.type = "snapshot"
          /\ sent'.to = sent.to )
        => sent'.msg.time[2] >= sent.msg.time[2]
      ]_vars

\* C23: recorded cursors advance in lockstep.  Whatever pass a tick loop
\* with a lane-occupancy log makes next, it leaves as many timesteps taken
\* from the trajectory log as blocks taken from the lane log, and a snapshot
\* it sends carries the vehicles of the k-th timestep with the k-th block.
C23_CursorsInLockstep ==
    \A t \in Tasks :
        tasks[t].pc \in {"created", "run"} =>
            LET tk == BindParsers(tasks[t], scenarios[current_scenario])
                r == LoopPass(tk, simulation_status, last_vehicles, disk,
                              conn[tk.ws] = "open")
            IN  tk.lane # None =>
                  /\ r.task.fcd_pos = r.task.lane_pos
                  /\ r.msg # NoMsg =>
                        /\ r.last_vehicles =
                              VehiclesDict(parse_fcd(disk.fcd)[r.task.fcd_pos][2])
                        /\ r.msg.lane_distributions =
                              parse_lane_distr(disk.lanes)[r.task.fcd_pos]

\* C24: a cancel received in status OFF is a no-op for the source and the
\* tasks: it calls no stop and cancels no task, so the engine's stop is
\* called at most once after each start.
C24_CancelInOffNoOp ==
    [][ /\ \A s \in Sessions :
              (Cancel(s) /\ simulation_status = STATUS_OFF)
              => UNCHANGED <<sumo_last_call, tasks>>
        /\ sumo_last_call' # "stop, stop"
      ]_vars

\* C25: restart replays from the beginning.  On a recorded session the first
\* snapshot sent after a start that follows a cancel is built from the first
\* timestep of the log, and its delta is that timestep's entities in full.
C25_RestartFromBeginning ==
    ( /\ hist = "restarted"
      /\ nsnap = 1
      /\ sent.re = "tick"
      /\ sent.msg.type = "snapshot"
      /\ ~live[sent.to] )
    => /\ sent.msg.time = Str(Float(parse_fcd(disk.fcd)[1][1]) * 1000)
       /\ sent.msg.vehicles = VehiclesDict(parse_fcd(disk.fcd)[1][2])

\* C26: the status is one process-wide value.  Right after a pause or a
\* cancel from one session, a pass of another session's tick loop takes no
\* frame and sends nothing; right after a resume from one session, a pass
\* of another session's loop that has timesteps left takes one.
C26_SharedStatus ==
    [][ \A t \in Tasks :
          LET tk == BindParsers(tasks[t], scenarios[current_scenario])
          IN  (TaskStep(t) /\ sent.to # 0 /\ sent.to # tk.ws)
              => /\ sent.re \in {"pause", "cancel"}
                    => ( /\ ~sent'.stepped
                         /\ sent'.msg = NoMsg
                         /\ last_vehicles' = last_vehicles
                         /\ tasks' = [tasks EXCEPT ![t] = [tk EXCEPT !.pc = "run"]] )
                 /\ ( /\ sent.re = "resume"
                      /\ tk.fcd # None
                      /\ tk.fcd_pos < Len(parse_fcd(disk.fcd)) )
                    => sent'.stepped
      ]_vars

\* C26 witness: two viewers are connected, each with a tick loop in the
\* middle of the log; the status is PAUSED and a pass has just taken nothing.
C26_Witness ==
    /\ pc[1] = "recv" /\ conn[1] = "open"
    /\ pc[2] = "recv" /\ conn[2] = "open"
    /\ simulation_status = STATUS_PAUSED
    /\ sent.re = "tick"
    /\ ~sent.stepped
    /\ \A s \in Pair :
          \E t \in Tasks : /\ tasks[t].ws = s
                           /\ tasks[t].pc = "run"
                           /\ tasks[t].fcd_pos >= 1
                           /\ tasks[t].fcd_pos < Len(parse_fcd(disk.fcd))

\* C27: no tick loop outlives its connection: once a session's websocket is
\* closed, every run_simulation task the session created eventually ends,
\* whatever the simulation status is
C27_TasksEndAfterClose ==
    \A s \in Sessions :
        (conn[s] = "closed") ~> (\A t \in Tasks : tasks[t].ws # s)

=============================================================================
